---- MODULE Spec2Model ----
(***************************************************************************)
(* Model of the HumanEval benchmarking harness: the output sanitizer       *)
(* (sanitize.py), the task-subset selector (inference.py), the pass@k      *)
(* estimator, the metrics ledger and the cost table (results_tracker.py),  *)
(* and the run orchestrator (inference.py) with its generation backends.   *)
(*                                                                         *)
(* Text is a sequence of one-character strings.  The characters that occur *)
(* are those of the pieces below; of Python's whitespace only " ", "\n"    *)
(* and "\t" are considered, and "\n" is the only line boundary.            *)
(***************************************************************************)
EXTENDS Integers, Sequences, FiniteSets, TLC

VARIABLES
    pc,        \* position of the driver of the function under study
    raw,       \* sanitizer: the raw model text
    defenced,  \* sanitizer: text after fence extraction and trailing-fence pruning
    body,      \* sanitizer: sanitize_completion(raw)
    body2,     \* sanitizer: sanitize_completion(body)
    all_ids,   \* selector: the ids handed to _select_task_ids
    env,       \* selector: the environment variables it reads
    shuffled,  \* selector: task_ids after the optional shuffle (first call)
    selected,  \* selector: the ids returned by the first call
    selected2, \* selector: the ids returned by a second call
    results,   \* estimator: the judge's results file, one record per sample
    pass_at_k, \* estimator: the value returned by calculate_pass_at_k
    csv_file,  \* ledger: the file combined_results.csv, absent or a list of rows
    tracker,   \* ledger: TRUE while the process holds a ResultsTracker object
    pandas,    \* ledger: TRUE iff the pandas package can be imported
    latest,    \* ledger: outcome of the last get_latest_results call
    added,     \* ledger: number of add_result calls that returned normally
    failed,    \* ledger: number of add_result calls that raised
    cost_args, \* cost: the arguments handed to calculate_cost
    cost,      \* cost: the value returned by calculate_cost
    run_env,   \* run: the environment variables read by inference.py
    main_calls, \* run: number of times main has been entered in this process
    backend,   \* run: the module generate_one_completion was imported from
    num_samples_per_task, \* run: main's local of that name
    main_task_ids, \* run: main's local task_ids
    samples,   \* run: main's list of generated samples
    failures,  \* run: number of generation calls that failed so far
    token_usage, \* run: the token counters of each backend module
    disk,      \* run: the files of the outputs directory
    judge,     \* run: how the evaluation subprocess ended
    procs      \* race: where each of two concurrent processes is

sanVars == <<raw, defenced, body, body2>>

selVars == <<all_ids, env, shuffled, selected, selected2>>

\* os.getenv: <<>> for a variable that is not set (None), <<v>> for the string v
Unset == <<>>

Str(v) == <<v>>

SanIdle == raw = <<>> /\ defenced = <<>> /\ body = <<>> /\ body2 = <<>>

SelIdle ==
    /\ all_ids = <<>>
    /\ env = [SHUFFLE_TASKS |-> Unset, TASK_SHUFFLE_SEED |-> Unset,
              TASK_IDS |-> Unset, TASK_LIMIT |-> Unset]
    /\ shuffled = <<>>
    /\ selected = <<>>
    /\ selected2 = <<>>

pkVars == <<results, pass_at_k>>

PkIdle == results = <<>> /\ pass_at_k = <<>>

ldVars == <<csv_file, tracker, pandas, latest, added, failed>>

\* the ledger file before the first run: it does not exist
Absent == [exists |-> FALSE, rows |-> <<>>]

NoCall == [status |-> "no call"]

LdIdle ==
    /\ csv_file = Absent
    /\ tracker = FALSE
    /\ pandas = TRUE
    /\ latest = NoCall
    /\ added = 0
    /\ failed = 0

costVars == <<cost_args, cost>>

CostIdle == cost_args = <<>> /\ cost = 0

runVars == <<run_env, main_calls, backend, num_samples_per_task, main_task_ids, samples, failures,
            token_usage, disk, judge>>

Modules == {"openAI_models", "crewai_agent", "qwen_agent", "langchain_agent",
            "langgraph_agent"}

\* token_usage = {"input_tokens": 0, "output_tokens": 0, "total_tokens": 0}
ZeroUsage == [input_tokens |-> 0, output_tokens |-> 0, total_tokens |-> 0]

NoFiles == [samples |-> Unset, problems |-> Unset, temp_results |-> Unset,
            results |-> Unset]

NotRun == [status |-> "not run"]

RunIdle ==
    /\ run_env = <<>>
    /\ main_calls = 0
    /\ backend = ""
    /\ num_samples_per_task = 0
    /\ main_task_ids = <<>>
    /\ samples = <<>>
    /\ failures = 0
    /\ token_usage = [m \in Modules |-> ZeroUsage]
    /\ disk = NoFiles
    /\ judge = NotRun

raceVars == <<procs>>

RaceIdle == procs = <<>>

vars == <<pc, sanVars, selVars, pkVars, ldVars, costVars, runVars, raceVars>>

\* what each component leaves alone
sanOthers == <<selVars, pkVars, ldVars, costVars, runVars, raceVars>>

selOthers == <<sanVars, pkVars, ldVars, costVars, runVars, raceVars>>

pkOthers == <<sanVars, selVars, ldVars, costVars, runVars, raceVars>>

ldOthers == <<sanVars, selVars, pkVars, costVars, runVars, raceVars>>

costOthers == <<sanVars, selVars, pkVars, ldVars, runVars, raceVars>>

SanOthersIdle == SelIdle /\ PkIdle /\ LdIdle /\ CostIdle /\ RunIdle /\ RaceIdle

SelOthersIdle == SanIdle /\ PkIdle /\ LdIdle /\ CostIdle /\ RunIdle /\ RaceIdle

PkOthersIdle == SanIdle /\ SelIdle /\ LdIdle /\ CostIdle /\ RunIdle /\ RaceIdle

LdOthersIdle == SanIdle /\ SelIdle /\ PkIdle /\ CostIdle /\ RunIdle /\ RaceIdle

\* a run writes the ledger file through a tracker; the rest it leaves alone
runOthers == <<sanVars, selVars, pkVars, costVars, pandas, latest, raceVars>>

RunOthersIdle == SanIdle /\ SelIdle /\ PkIdle /\ LdIdle /\ CostIdle /\ RaceIdle

\* concurrent trackers share the ledger file and nothing else
raceOthers == <<sanVars, selVars, pkVars, costVars, runVars,
                tracker, pandas, latest, added, failed>>

RaceOthersIdle == SanIdle /\ SelIdle /\ PkIdle /\ LdIdle /\ CostIdle /\ RunIdle

CostOthersIdle == SanIdle /\ SelIdle /\ PkIdle /\ LdIdle /\ RunIdle /\ RaceIdle

-----------------------------------------------------------------------------
(* Bounds *)

MaxPieces == 4

-----------------------------------------------------------------------------
(* Generic string helpers (Python str methods) *)

NL == "\n"
\* the backtick character (a TLA+ string cannot hold it)
BT == "BACKTICK"
FENCE == <<BT, BT, BT>>
INDENT == <<" ", " ", " ", " ">>

IsSpace(c) == c \in {" ", NL, "\t"}

Slice(s, i, j) == IF i > j THEN <<>> ELSE SubSeq(s, i, j)

\* s[i:] starts with p (i is 1-based)
StartsAt(s, p, i) ==
    /\ i >= 1
    /\ i + Len(p) - 1 <= Len(s)
    /\ \A k \in 1..Len(p) : s[i + k - 1] = p[k]

\* str.lstrip(): index of the first non-whitespace character, Len+1 if none
FirstNonSpace(s) ==
    IF \E i \in 1..Len(s) : ~IsSpace(s[i])
    THEN CHOOSE i \in 1..Len(s) : ~IsSpace(s[i]) /\ \A j \in 1..(i-1) : IsSpace(s[j])
    ELSE Len(s) + 1

\* index of the last non-whitespace character, 0 if none
LastNonSpace(s) ==
    IF \E i \in 1..Len(s) : ~IsSpace(s[i])
    THEN CHOOSE i \in 1..Len(s) : ~IsSpace(s[i]) /\ \A j \in (i+1)..Len(s) : IsSpace(s[j])
    ELSE 0

RStrip(s) == Slice(s, 1, LastNonSpace(s))

Strip(s) == Slice(s, FirstNonSpace(s), LastNonSpace(s))

\* str.lstrip("\n")
LStripNL(s) ==
    IF \E i \in 1..Len(s) : s[i] # NL
    THEN Slice(s, CHOOSE i \in 1..Len(s) : s[i] # NL /\ \A j \in 1..(i-1) : s[j] = NL, Len(s))
    ELSE <<>>

\* str.find(FENCE, from): first index >= from where a fence starts, 0 if none
FindFence(s, from) ==
    IF \E i \in from..Len(s) : StartsAt(s, FENCE, i)
    THEN CHOOSE i \in from..Len(s) :
            StartsAt(s, FENCE, i) /\ \A j \in from..(i-1) : ~StartsAt(s, FENCE, j)
    ELSE 0

\* str.splitlines() with "\n" as the only boundary: no empty last line
RECURSIVE SplitLines(_)
SplitLines(s) ==
    IF s = <<>> THEN <<>>
    ELSE IF \E i \in 1..Len(s) : s[i] = NL
         THEN LET i == CHOOSE i \in 1..Len(s) : s[i] = NL /\ \A j \in 1..(i-1) : s[j] # NL
              IN  <<Slice(s, 1, i - 1)>> \o SplitLines(Slice(s, i + 1, Len(s)))
         ELSE <<s>>

\* "\n".join(lines)
RECURSIVE JoinLines(_)
JoinLines(lines) ==
    IF lines = <<>> THEN <<>>
    ELSE IF Len(lines) = 1 THEN lines[1]
    ELSE lines[1] \o <<NL>> \o JoinLines(Tail(lines))

\* text if text.endswith("\n") else text + "\n"
EnsureNewline(s) == IF Len(s) > 0 /\ s[Len(s)] = NL THEN s ELSE s \o <<NL>>

-----------------------------------------------------------------------------
(* sanitize.py *)

PYTHON == <<"p", "y", "t", "h", "o", "n">>

\* lower case of the letters that occur in upper case (re.IGNORECASE, str.lower)
Lower(c) ==
    CASE c = "P" -> "p" [] c = "Y" -> "y" [] c = "T" -> "t"
      [] c = "H" -> "h" [] c = "O" -> "o" [] c = "N" -> "n"
      [] c = "R" -> "r" [] c = "U" -> "u" [] c = "E" -> "e" [] OTHER -> c

StartsAtNoCase(s, p, i) ==
    /\ i + Len(p) - 1 <= Len(s)
    /\ \A k \in 1..Len(p) : Lower(s[i + k - 1]) = p[k]

\* \s* (greedy): first index >= i that holds no whitespace
SkipSpace(s, i) ==
    IF \E k \in i..Len(s) : ~IsSpace(s[k])
    THEN CHOOSE k \in i..Len(s) : ~IsSpace(s[k]) /\ \A j \in i..(k-1) : IsSpace(s[j])
    ELSE Len(s) + 1

\* re.findall(r"```(?:python)?\s*([\s\S]*?)\s*```", text, re.IGNORECASE)[:1]:
\* the capture of the leftmost match, as a sequence of zero or one captures.
\* The match starts at the first fence; the optional tag and the whitespace
\* after it are taken greedily; the lazy capture ends where a run of
\* whitespace followed by the next fence begins.
FirstFenced(text) ==
    LET open  == FindFence(text, 1)
        after == open + 3
        tagged == IF StartsAtNoCase(text, PYTHON, after) THEN after + 6 ELSE after
        start == SkipSpace(text, tagged)
        close == FindFence(text, start)
        stop  == CHOOSE q \in start..close :
                    /\ \A j \in q..(close-1) : IsSpace(text[j])
                    /\ \A r \in start..(q-1) : \E j \in r..(close-1) : ~IsSpace(text[j])
    IN  IF open = 0 \/ close = 0 THEN <<>> ELSE <<Slice(text, start, stop - 1)>>

_strip_code_fences(text0) ==
    LET text == Strip(text0)
        fenced == FirstFenced(text)
    IN  IF fenced # <<>> THEN Strip(fenced[1])
        ELSE IF StartsAt(text, FENCE, 1) /\ StartsAt(text, FENCE, Len(text) - 2)
             THEN Strip(Slice(text, 4, Len(text) - 3))
             ELSE text

\* ln.strip().startswith("```")
StartsFence(ln) == StartsAt(Strip(ln), FENCE, 1)

\* the loop of sanitize_completion: the lines before the first fence line
RECURSIVE TakeUntilFence(_)
TakeUntilFence(lines) ==
    IF lines = <<>> \/ StartsFence(lines[1]) THEN <<>>
    ELSE <<lines[1]>> \o TakeUntilFence(Tail(lines))

\* sanitize_completion up to the call of _strip_signature_if_present
PruneTrailingFence(text) ==
    RStrip(JoinLines(TakeUntilFence(SplitLines(text)))) \o <<NL>>

IsWord(c) ==
    c \in {"a", "b", "d", "e", "f", "h", "n", "o", "p", "t", "x", "y", "_",
           "P", "Y", "T", "H", "O", "N"}

AllSpace(s, i, j) == \A k \in i..j : IsSpace(s[k])

\* re.match(r"^\s*def\s+\w+\s*\(.*\)\s*:\s*$", ln) on a line without "\n"
IsDefHeader(ln) ==
    \E d \in 1..Len(ln) :                       \* "def" starts at d
        /\ AllSpace(ln, 1, d - 1)
        /\ StartsAt(ln, <<"d", "e", "f">>, d)
        /\ \E w \in (d+4)..Len(ln) :            \* \w+ starts at w
            /\ AllSpace(ln, d + 3, w - 1)
            /\ \E lp \in (w+1)..Len(ln) :       \* "(" at lp
                /\ ln[lp] = "("
                /\ \E we \in w..(lp-1) :        \* \w+ ends at we
                    /\ \A k \in w..we : IsWord(ln[k])
                    /\ AllSpace(ln, we + 1, lp - 1)
                /\ \E rp \in (lp+1)..Len(ln) :  \* ")" at rp
                    /\ ln[rp] = ")"
                    /\ \E co \in (rp+1)..Len(ln) :
                        /\ ln[co] = ":"
                        /\ AllSpace(ln, rp + 1, co - 1)
                        /\ AllSpace(ln, co + 1, Len(ln))

\* len(re.match(r"^[ \t]*", ln).group(0))
LeadingWidth(ln) ==
    IF \E k \in 1..Len(ln) : ln[k] \notin {" ", "\t"}
    THEN (CHOOSE k \in 1..Len(ln) :
            ln[k] \notin {" ", "\t"} /\ \A j \in 1..(k-1) : ln[j] \in {" ", "\t"}) - 1
    ELSE Len(ln)

\* ln.strip() is empty
IsBlank(ln) == AllSpace(ln, 1, Len(ln))

MinOf(S) == CHOOSE m \in S : \A n \in S : m <= n

\* mutant: blank lines are prefixed as well
IndentLine_all(ln) == INDENT \o ln

IndentLine(ln) == IF IsBlank(ln) THEN ln ELSE INDENT \o ln

\* str.lstrip()
LStrip(s) == Slice(s, FirstNonSpace(s), Len(s))

\* mutant: the body is left-trimmed of all whitespace (lstrip() for
\* lstrip("\n")), which dedents its first line
_strip_signature_dedent(text0) ==
    LET lines == SplitLines(text0)
        nonEmpty == {i \in 1..Len(lines) : ~IsBlank(lines[i])}
        text ==
            IF IsDefHeader(lines[1])
            THEN LStrip(JoinLines(Tail(lines)))
            ELSE IF nonEmpty # {}
                    /\ MinOf({LeadingWidth(lines[i]) : i \in nonEmpty}) < 4
                 THEN JoinLines([i \in 1..Len(lines) |->
                        IF IsBlank(lines[i]) THEN lines[i] ELSE INDENT \o lines[i]])
                 ELSE text0
    IN  IF lines = <<>> THEN text0 ELSE EnsureNewline(text)

_strip_signature_if_present(text0) ==
    LET lines == SplitLines(text0)
        nonEmpty == {i \in 1..Len(lines) : ~IsBlank(lines[i])}
        text ==
            IF IsDefHeader(lines[1])
            THEN LStripNL(JoinLines(Tail(lines)))
            ELSE IF nonEmpty # {}
                    /\ MinOf({LeadingWidth(lines[i]) : i \in nonEmpty}) < 4
                 THEN JoinLines([i \in 1..Len(lines) |-> IndentLine(lines[i])])
                 ELSE text0
    IN  IF lines = <<>> THEN text0 ELSE EnsureNewline(text)

\* str.replace("```", ""): leftmost, non-overlapping occurrences removed
RECURSIVE RemoveFences(_)
RemoveFences(s) ==
    IF s = <<>> THEN <<>>
    ELSE IF StartsAt(s, FENCE, 1) THEN RemoveFences(Slice(s, 4, Len(s)))
    ELSE <<s[1]>> \o RemoveFences(Tail(s))

\* mutant: the residual fences are not removed
ScrubFences_keep(text) == RStrip(text) \o <<NL>>

\* mutant: the text is not right-stripped before the newline is added
ScrubFences_no_rstrip(text) == RemoveFences(text) \o <<NL>>

\* text.replace("```", "").rstrip() + "\n"
ScrubFences(text) == RStrip(RemoveFences(text)) \o <<NL>>

sanitize_completion(text) ==
    ScrubFences(_strip_signature_if_present(PruneTrailingFence(_strip_code_fences(text))))

-----------------------------------------------------------------------------
(* Sanitizer driver: a raw text, sanitized once and then once more *)

Pieces ==
    { <<"d", "e", "f", " ", "f", "(", "x", ")", ":">>,   \* a signature line
      <<" ", " ", " ", " ", "a">>,                       \* an indented statement
      <<"a">>,                                           \* an unindented statement
      <<" ">>,
      <<NL>>,
      FENCE,
      <<BT>>,
      PYTHON }

RECURSIVE Concat(_)
Concat(ps) == IF ps = <<>> THEN <<>> ELSE ps[1] \o Concat(Tail(ps))

RawTexts == UNION { {Concat(ps) : ps \in [1..n -> Pieces]} : n \in 0..MaxPieces }

SanInit ==
    /\ pc = "raw"
    /\ raw \in RawTexts
    /\ defenced = <<>>
    /\ body = <<>>
    /\ body2 = <<>>
    /\ SanOthersIdle

\* body = sanitize_completion(raw)
Sanitize ==
    /\ pc = "raw"
    /\ defenced' = PruneTrailingFence(_strip_code_fences(raw))
    /\ body' = sanitize_completion(raw)
    /\ pc' = "sanitized"
    /\ UNCHANGED <<raw, body2>>
    /\ UNCHANGED sanOthers

\* body2 = sanitize_completion(body)
Resanitize ==
    /\ pc = "sanitized"
    /\ body2' = sanitize_completion(body)
    /\ pc' = "resanitized"
    /\ UNCHANGED <<raw, defenced, body>>
    /\ UNCHANGED sanOthers

SanNext == Sanitize \/ Resanitize

SpecSanitize == SanInit /\ [][SanNext]_vars

-----------------------------------------------------------------------------
(* Sanitizer properties *)

HasFence(s) == \E i \in 1..Len(s) : StartsAt(s, FENCE, i)

HasBacktick(s) == \E i \in 1..Len(s) : s[i] = BT

\* the lines of the de-fenced text, and those left after a signature line
\* and the empty lines directly after it are dropped
DefLines == SplitLines(defenced)

RECURSIVE DropEmpty(_)
DropEmpty(lines) ==
    IF lines # <<>> /\ lines[1] = <<>> THEN DropEmpty(Tail(lines)) ELSE lines

Remaining == DropEmpty(Tail(DefLines))

HasSignature == DefLines # <<>> /\ IsDefHeader(DefLines[1])

BodyLines == SplitLines(body)

\* C1: sanitize_completion is idempotent:
\* sanitize_completion(sanitize_completion(x)) = sanitize_completion(x).
C1_Idempotent == pc = "resanitized" => body2 = body

\* C2: the result of sanitize_completion holds no three-backtick fence,
\* whatever the input (runs of 4, 5 or 6 backticks included).
C2_NoFenceInBody == pc # "raw" => ~HasFence(body)

\* a fence reaches the residual scrub: the input holds one and so does the
\* text handed to the last stage
C2_Witness ==
    /\ pc = "sanitized"
    /\ HasFence(raw)
    /\ HasFence(_strip_signature_if_present(defenced))

NonBlank(lines) == {i \in 1..Len(lines) : ~IsBlank(lines[i])}

NeedsFloor ==
    /\ ~HasSignature
    /\ NonBlank(DefLines) # {}
    /\ \E i \in NonBlank(DefLines) : LeadingWidth(DefLines[i]) < 4

\* C4: with no signature line and a minimum indentation below 4, every
\* non-blank line of the de-fenced text is prefixed with exactly four spaces
\* and blank lines are left as they are.
C4_IndentFloor ==
    (pc # "raw" /\ NeedsFloor) =>
        /\ Len(BodyLines) = Len(DefLines)
        /\ body = JoinLines(BodyLines) \o <<NL>>
        /\ \A i \in 1..Len(DefLines) :
            IF IsBlank(DefLines[i])
            THEN BodyLines[i] = DefLines[i]
            ELSE /\ StartsAt(BodyLines[i], INDENT, 1)
                 /\ LeadingWidth(BodyLines[i]) = LeadingWidth(DefLines[i]) + 4
                 /\ ~HasFence(DefLines[i]) => BodyLines[i] = INDENT \o DefLines[i]

\* two statements with a blank line between them
C4_Witness ==
    /\ pc = "sanitized"
    /\ NeedsFloor
    /\ Len(DefLines) = 3
    /\ IsBlank(DefLines[2])
    /\ BodyLines[1] = INDENT \o DefLines[1]
    /\ BodyLines[3] = INDENT \o DefLines[3]

RawLines == SplitLines(raw)

\* no signature line, no fence, first line not blank, every non-blank line
\* indented by at least 4 columns
AlreadyIndented ==
    /\ RawLines # <<>>
    /\ ~HasBacktick(raw)
    /\ ~IsBlank(RawLines[1])
    /\ ~IsBlank(RawLines[Len(RawLines)])
    /\ ~IsDefHeader(RawLines[1])
    /\ \A i \in NonBlank(RawLines) : LeadingWidth(RawLines[i]) >= 4

\* C5: an already-indented body without a signature line is left unchanged:
\* no line of the result is indented more than the line of the input.
C5_NoDoubleIndent ==
    (pc # "raw" /\ AlreadyIndented) =>
        /\ Len(BodyLines) = Len(RawLines)
        /\ \A i \in 1..Len(RawLines) :
                LeadingWidth(BodyLines[i]) <= LeadingWidth(RawLines[i])

-----------------------------------------------------------------------------
(* inference.py: _select_task_ids *)

MaxIds == 3
MaxEntropy == 3

\* state space of the pseudorandom generator behind random.seed and
\* random.shuffle (a linear congruential generator stands for it)
RngModulus == 16

RngStep(st) == (st * 5 + 3) % RngModulus

Digits == {"0", "1", "2", "3", "4", "5", "6", "7", "8", "9"}

DigitVal(c) ==
    CASE c = "0" -> 0 [] c = "1" -> 1 [] c = "2" -> 2 [] c = "3" -> 3 [] c = "4" -> 4
      [] c = "5" -> 5 [] c = "6" -> 6 [] c = "7" -> 7 [] c = "8" -> 8 [] c = "9" -> 9

\* str.isdigit()
IsDigitStr(s) == s # <<>> /\ \A i \in 1..Len(s) : s[i] \in Digits

\* int(s) for a string of digits
RECURSIVE ParseInt(_)
ParseInt(s) ==
    IF s = <<>> THEN 0
    ELSE 10 * ParseInt(SubSeq(s, 1, Len(s) - 1)) + DigitVal(s[Len(s)])

\* str.lower()
LowerStr(s) == [i \in 1..Len(s) |-> Lower(s[i])]

\* explicit.split(",")
RECURSIVE SplitComma(_)
SplitComma(s) ==
    IF \E i \in 1..Len(s) : s[i] = ","
    THEN LET i == CHOOSE i \in 1..Len(s) : s[i] = "," /\ \A j \in 1..(i-1) : s[j] # ","
         IN  <<Slice(s, 1, i - 1)>> \o SplitComma(Slice(s, i + 1, Len(s)))
    ELSE <<s>>

\* os.getenv(name, default)
Getenv(v, default) == IF v = Unset THEN default ELSE v[1]

\* truth value of an optional string: set and not empty
Truthy(v) == v # Unset /\ v[1] # <<>>

\* os.getenv("SHUFFLE_TASKS", "false").lower() == "true"
ShuffleEnabled(e) ==
    LowerStr(Getenv(e.SHUFFLE_TASKS, <<"f", "a", "l", "s", "e">>)) = <<"t", "r", "u", "e">>

\* mutant: the generator is seeded from the system's entropy whatever the seed
SeedState_entropy(seed, entropy) == entropy % RngModulus

\* random.seed(os.getenv("TASK_SHUFFLE_SEED")): the generator's state is a
\* function of the seed string, and of the system's entropy when there is none
SeedState(seed, entropy) ==
    IF seed = Unset THEN entropy % RngModulus
    ELSE (IF IsDigitStr(seed[1]) THEN ParseInt(seed[1]) ELSE Len(seed[1])) % RngModulus

Swap(x, i, j) == [x EXCEPT ![i] = x[j], ![j] = x[i]]

\* random.shuffle(x): for i from the last index down, swap x[i] with x[j] for
\* a random j at or before i
RECURSIVE ShuffleFrom(_, _, _)
ShuffleFrom(x, i, st) ==
    IF i < 2 THEN x
    ELSE LET st2 == RngStep(st)
         IN  ShuffleFrom(Swap(x, i, 1 + (st2 % i)), i - 1, st2)

Shuffle(x, st) == ShuffleFrom(x, Len(x), st)

\* task_ids after the optional shuffle
ShuffledIds(ids, e, entropy) ==
    IF ShuffleEnabled(e) THEN Shuffle(ids, SeedState(e.TASK_SHUFFLE_SEED, entropy))
    ELSE ids

\* {tid.strip() for tid in explicit.split(",") if tid.strip()}
Wanted(explicit) ==
    LET parts == SplitComma(explicit)
    IN  {Strip(parts[i]) : i \in {k \in 1..Len(parts) : Strip(parts[k]) # <<>>}}

\* mutant: the wanted ids themselves are returned, in the order given
FilterWanted_given(task_ids, explicit) ==
    LET parts == SplitComma(explicit)
    IN  SelectSeq([i \in 1..Len(parts) |-> Strip(parts[i])], LAMBDA t : t # <<>>)

\* [tid for tid in task_ids if tid in wanted]
RECURSIVE FilterWanted(_, _)
FilterWanted(task_ids, explicit) ==
    IF task_ids = <<>> THEN <<>>
    ELSE (IF task_ids[1] \in Wanted(explicit) THEN <<task_ids[1]>> ELSE <<>>)
            \o FilterWanted(Tail(task_ids), explicit)

\* mutant: one id too many
Take_one_more(x, n) == SubSeq(x, 1, IF n + 1 < Len(x) THEN n + 1 ELSE Len(x))

\* x[:n] for n >= 0
Take(x, n) == SubSeq(x, 1, IF n < Len(x) THEN n ELSE Len(x))

\* mutant: the limit is applied to the explicitly chosen ids as well
_select_task_ids_limited(ids, e, entropy) ==
    LET task_ids == ShuffledIds(ids, e, entropy)
        chosen == IF Truthy(e.TASK_IDS) THEN FilterWanted(task_ids, e.TASK_IDS[1])
                  ELSE task_ids
    IN  IF Truthy(e.TASK_LIMIT) /\ IsDigitStr(e.TASK_LIMIT[1])
        THEN Take(chosen, ParseInt(e.TASK_LIMIT[1]))
        ELSE chosen

_select_task_ids(ids, e, entropy) ==
    LET task_ids == ShuffledIds(ids, e, entropy)
        explicit == e.TASK_IDS
        limit == e.TASK_LIMIT
    IN  IF Truthy(explicit) THEN FilterWanted(task_ids, explicit[1])
        ELSE IF Truthy(limit) /\ IsDigitStr(limit[1])
             THEN Take(task_ids, ParseInt(limit[1]))
             ELSE task_ids

-----------------------------------------------------------------------------
(* Selector driver: one configuration, two calls *)

Ids == {<<"1">>, <<"2">>, <<"3">>}

AllIdLists == UNION { [1..n -> Ids] : n \in 0..MaxIds }

ShuffleValues == {Unset, Str(<<"t", "r", "u", "e">>), Str(<<"T", "r", "u", "e">>),
                  Str(<<"f", "a", "l", "s", "e">>)}

SeedValues == {Unset, Str(<<"7">>), Str(<<"8">>)}

ExplicitValues ==
    {Unset, Str(<<>>), Str(<<" ">>), Str(<<"2">>), Str(<<" ", "2", " ">>),
     Str(<<"1", ",", "2">>), Str(<<"2", ",", "1">>), Str(<<"1", ",", ",", "3">>),
     Str(<<"3", ",", " ", "3">>)}

LimitValues ==
    {Unset, Str(<<>>), Str(<<"0">>), Str(<<"1">>), Str(<<"2">>), Str(<<"5">>),
     Str(<<"-", "1">>)}

SelInit ==
    /\ pc = "start"
    /\ all_ids \in AllIdLists
    /\ env \in [SHUFFLE_TASKS : ShuffleValues, TASK_SHUFFLE_SEED : SeedValues,
                TASK_IDS : ExplicitValues, TASK_LIMIT : LimitValues]
    /\ shuffled = <<>>
    /\ selected = <<>>
    /\ selected2 = <<>>
    /\ SelOthersIdle

\* selected = _select_task_ids(all_ids)
Select ==
    /\ pc = "start"
    /\ \E entropy \in 0..MaxEntropy :
        /\ shuffled' = ShuffledIds(all_ids, env, entropy)
        /\ selected' = _select_task_ids(all_ids, env, entropy)
    /\ pc' = "selected"
    /\ UNCHANGED <<all_ids, env, selected2>>
    /\ UNCHANGED selOthers

\* selected2 = _select_task_ids(all_ids), the environment unchanged
SelectAgain ==
    /\ pc = "selected"
    /\ \E entropy \in 0..MaxEntropy :
        selected2' = _select_task_ids(all_ids, env, entropy)
    /\ pc' = "reselected"
    /\ UNCHANGED <<all_ids, env, shuffled, selected>>
    /\ UNCHANGED selOthers

SelNext == Select \/ SelectAgain

SpecSelect == SelInit /\ [][SelNext]_vars

-----------------------------------------------------------------------------
(* Selector properties *)

Count(x, t) == Cardinality({i \in 1..Len(x) : x[i] = t})

IsPermutation(x, y) ==
    /\ Len(x) = Len(y)
    /\ \A i \in 1..Len(y) : Count(x, y[i]) = Count(y, y[i])

ExplicitSet == Truthy(env.TASK_IDS)

NumericLimit == Truthy(env.TASK_LIMIT) /\ IsDigitStr(env.TASK_LIMIT[1])

LimitN == ParseInt(env.TASK_LIMIT[1])

\* C6: with TASK_IDS and a numeric TASK_LIMIT both set, the result is the ids
\* of the (possibly shuffled) sequence that are in the explicit set, in the
\* sequence's order; the limit has no effect.
C6_ExplicitWins ==
    (pc # "start" /\ ExplicitSet /\ NumericLimit) =>
        /\ IsPermutation(shuffled, all_ids)
        /\ ~ShuffleEnabled(env) => shuffled = all_ids
        /\ selected = SelectSeq(shuffled, LAMBDA t : t \in Wanted(env.TASK_IDS[1]))

\* more explicit ids are returned than the limit would allow
C6_Witness ==
    /\ pc = "selected"
    /\ ExplicitSet
    /\ NumericLimit
    /\ Len(selected) = 2
    /\ LimitN = 1

\* C7: with no explicit ids and no shuffle, a numeric limit N yields the first
\* min(N, len) ids in their original order; with no numeric limit and no
\* explicit ids the full (possibly shuffled) sequence is returned.
C7_LimitOnly ==
    (pc # "start" /\ ~ExplicitSet) =>
        /\ (NumericLimit /\ ~ShuffleEnabled(env)) =>
            /\ Len(selected) = (IF LimitN < Len(all_ids) THEN LimitN ELSE Len(all_ids))
            /\ \A i \in 1..Len(selected) : selected[i] = all_ids[i]
        /\ ~NumericLimit => selected = shuffled
        /\ (~NumericLimit /\ ~ShuffleEnabled(env)) => selected = all_ids

\* limit 2 over three ids
C7_Witness ==
    /\ pc = "selected"
    /\ ~ExplicitSet
    /\ ~ShuffleEnabled(env)
    /\ NumericLimit
    /\ LimitN = 2
    /\ all_ids = << <<"1">>, <<"2">>, <<"3">> >>
    /\ selected = << <<"1">>, <<"2">> >>

\* C8: every id returned is an id of all_ids, and occurs in the result no
\* more often than in all_ids.
C8_OnlyKnownIds ==
    /\ pc # "start" =>
        \A i \in 1..Len(selected) : Count(selected, selected[i]) <= Count(all_ids, selected[i])
    /\ pc = "reselected" =>
        \A i \in 1..Len(selected2) : Count(selected2, selected2[i]) <= Count(all_ids, selected2[i])

\* a shuffled list with a duplicate, filtered by a set that names an id the
\* list does not hold
C8_Witness ==
    /\ pc = "selected"
    /\ ShuffleEnabled(env)
    /\ ExplicitSet
    /\ <<"3">> \in Wanted(env.TASK_IDS[1])
    /\ Count(all_ids, <<"3">>) = 0
    /\ Count(all_ids, <<"1">>) = 2
    /\ selected = << <<"1">>, <<"1">> >>

\* C9: two calls with the same ids, the same configuration and a fixed seed
\* (or no shuffle) return the same sequence.
C9_Deterministic ==
    (pc = "reselected" /\ (~ShuffleEnabled(env) \/ env.TASK_SHUFFLE_SEED # Unset)) =>
        selected2 = selected

\* a seeded shuffle that reorders three ids, twice the same way
C9_Witness ==
    /\ pc = "reselected"
    /\ ShuffleEnabled(env)
    /\ env.TASK_SHUFFLE_SEED # Unset
    /\ Len(selected) = 3
    /\ selected # all_ids
    /\ selected2 = selected

-----------------------------------------------------------------------------
(* results_tracker.py: calculate_pass_at_k *)

MaxRecords == 6

\* k_values = list(range(1, 11))
KMax == 10

NA == [kind |-> "N/A"]

Ratio(n, d) == [kind |-> "ratio", num |-> n, den |-> d]

\* task_results: the outcomes of each task id, in file order
TaskResults(file) ==
    LET ids == {file[i].task_id : i \in 1..Len(file)}
        of(t) == SelectSeq(file, LAMBDA r : r.task_id = t)
    IN  [t \in ids |-> [i \in 1..Len(of(t)) |-> of(t)[i].passed]]

\* mutant: the smallest number of samples of a task
max_samples_smallest(task_results) ==
    IF DOMAIN task_results = {} THEN 0
    ELSE CHOOSE m \in {Len(task_results[t]) : t \in DOMAIN task_results} :
            \A t \in DOMAIN task_results : m <= Len(task_results[t])

\* max(len(results) for results in task_results.values()) if task_results else 0
max_samples(task_results) ==
    IF DOMAIN task_results = {} THEN 0
    ELSE CHOOSE m \in {Len(task_results[t]) : t \in DOMAIN task_results} :
            \A t \in DOMAIN task_results : m >= Len(task_results[t])

\* mutant: results[k - 1], the k-th sample alone
AnyPassed_kth(outcomes, k) == k <= Len(outcomes) /\ outcomes[k]

\* mutant: any(results), the samples after the k-th included
AnyPassed_all(outcomes, k) == \E i \in 1..Len(outcomes) : outcomes[i]

\* any(results[:k])
AnyPassed(outcomes, k) == \E i \in 1..Len(outcomes) : i <= k /\ outcomes[i]

\* passed_tasks / total_tasks if total_tasks > 0 else 0.0
PassRatio(task_results, k) ==
    LET total_tasks == Cardinality(DOMAIN task_results)
        passed_tasks == Cardinality({t \in DOMAIN task_results : AnyPassed(task_results[t], k)})
    IN  IF total_tasks > 0 THEN Ratio(passed_tasks, total_tasks) ELSE Ratio(0, 1)

\* mutant: every k is computed, none is left to the "N/A" fill
calculate_pass_at_k_every_k(file) ==
    [k \in 1..KMax |-> PassRatio(TaskResults(file), k)]

calculate_pass_at_k(file) ==
    LET task_results == TaskResults(file)
    IN  [k \in 1..KMax |->
            IF k <= max_samples(task_results) THEN PassRatio(task_results, k) ELSE NA]

-----------------------------------------------------------------------------
(* Estimator driver: a results file and one call *)

TaskIds == {"HumanEval/0", "HumanEval/1", "HumanEval/2"}

Records == [task_id : TaskIds, passed : BOOLEAN]

PkInit ==
    /\ pc = "judged"
    /\ results \in UNION { [1..n -> Records] : n \in 0..MaxRecords }
    /\ pass_at_k = <<>>
    /\ PkOthersIdle

\* pass_at_k = calculate_pass_at_k(results_file)
CalculatePassAtK ==
    /\ pc = "judged"
    /\ pass_at_k' = calculate_pass_at_k(results)
    /\ pc' = "calculated"
    /\ UNCHANGED results
    /\ UNCHANGED pkOthers

PkNext == CalculatePassAtK

SpecPassK == PkInit /\ [][PkNext]_vars

-----------------------------------------------------------------------------
(* Estimator properties *)

SamplesOf(t) == Cardinality({i \in 1..Len(results) : results[i].task_id = t})

\* the largest number of outcomes of one task in the results file
LargestCount == CHOOSE m \in 0..Len(results) :
    /\ \A t \in TaskIds : SamplesOf(t) <= m
    /\ m > 0 => \E t \in TaskIds : SamplesOf(t) = m

\* C10: calculate_pass_at_k returns an entry for every k in 1..10; it is
\* "N/A" exactly when k exceeds the largest per-task outcome count, and a
\* ratio in [0,1] otherwise.
C10_PassAtKRange ==
    pc = "calculated" =>
        /\ DOMAIN pass_at_k = 1..10
        /\ \A k \in 1..10 :
            /\ pass_at_k[k].kind = "N/A" <=> k > LargestCount
            /\ pass_at_k[k].kind # "N/A" =>
                /\ pass_at_k[k].kind = "ratio"
                /\ pass_at_k[k].den > 0
                /\ 0 <= pass_at_k[k].num
                /\ pass_at_k[k].num <= pass_at_k[k].den

\* one task with two samples and one with a single sample: pass@2 is computed
\* over both, pass@3 is not computable
C10_Witness ==
    /\ pc = "calculated"
    /\ SamplesOf("HumanEval/0") = 2
    /\ SamplesOf("HumanEval/1") = 1
    /\ SamplesOf("HumanEval/2") = 0
    /\ pass_at_k[2] = Ratio(1, 2)
    /\ pass_at_k[3] = NA

\* the task ids of the results file, and those with a passing outcome among
\* their first k outcomes in file order
TasksJudged == {results[i].task_id : i \in 1..Len(results)}

PassedWithin(k) ==
    {t \in TasksJudged :
        \E i \in 1..Len(results) :
            /\ results[i].task_id = t
            /\ results[i].passed
            /\ Cardinality({j \in 1..i : results[j].task_id = t}) <= k}

\* C11: for every computable k, pass@k is the number of tasks with a passing
\* outcome among their first min(k, len) outcomes over the number of tasks,
\* tasks with fewer than k samples included.
C11_PassAtKValue ==
    pc = "calculated" =>
        \A k \in 1..10 :
            k <= LargestCount =>
                pass_at_k[k] = Ratio(Cardinality(PassedWithin(k)), Cardinality(TasksJudged))

\* P1 = [False, True, False], P2 = [False, False, False]:
\* pass@1 = 0/2, pass@2 = 1/2, pass@3 = 1/2, pass@4..10 = "N/A"
C11_Witness ==
    /\ pc = "calculated"
    /\ results = << [task_id |-> "HumanEval/0", passed |-> FALSE],
                    [task_id |-> "HumanEval/0", passed |-> TRUE],
                    [task_id |-> "HumanEval/0", passed |-> FALSE],
                    [task_id |-> "HumanEval/1", passed |-> FALSE],
                    [task_id |-> "HumanEval/1", passed |-> FALSE],
                    [task_id |-> "HumanEval/1", passed |-> FALSE] >>
    /\ pass_at_k[1] = Ratio(0, 2)
    /\ pass_at_k[2] = Ratio(1, 2)
    /\ pass_at_k[3] = Ratio(1, 2)
    /\ \A k \in 4..10 : pass_at_k[k] = NA

\* C12 (as claimed): with no problems in the results, pass@k is 0.0.
C12_EmptyIsZero ==
    (pc = "calculated" /\ results = <<>>) =>
        \A k \in 1..10 : pass_at_k[k] = Ratio(0, 1)

\* C12 (amended): with no problems in the results, calculate_pass_at_k
\* returns without error and every pass@k, k in 1..10, is "N/A"; the 0.0 of
\* the zero-task guard is never returned.
C12_EmptyIsNA ==
    /\ (pc = "calculated" /\ results = <<>>) =>
            \A k \in 1..10 : pass_at_k[k] = NA
    /\ pc = "calculated" =>
            \A k \in 1..10 : pass_at_k[k] = Ratio(0, 1) => TasksJudged # {}

\* the empty results file, evaluated
C12_Witness ==
    /\ pc = "calculated"
    /\ results = <<>>
    /\ DOMAIN pass_at_k = 1..10
    /\ pass_at_k[1] = NA

-----------------------------------------------------------------------------
(* results_tracker.py: the cost table *)

(* Money is exact: a rate is in units of 10^-5 dollar per 1000 tokens, and  *)
(* calculate_cost returns units of 10^-8 dollar, so that                    *)
(* (tokens / 1000) * rate is tokens * rate with no division.                *)
GPT4O == "gpt-4o"

\* pricing.get(model, pricing["gpt-4o"])
pricing ==
    [m \in {"gpt-4o", "gpt-4o-mini", "gpt-4", "gpt-3.5-turbo"} |->
        CASE m = "gpt-4o"        -> [input |-> 500,  output |-> 1500]
          [] m = "gpt-4o-mini"   -> [input |-> 15,   output |-> 60]
          [] m = "gpt-4"         -> [input |-> 3000, output |-> 6000]
          [] m = "gpt-3.5-turbo" -> [input |-> 100,  output |-> 200]]

\* mutant: a model that is not in the table is priced at the cheapest row
model_pricing_cheapest(model) ==
    IF model \in DOMAIN pricing THEN pricing[model] ELSE pricing["gpt-4o-mini"]

model_pricing(model) ==
    IF model \in DOMAIN pricing THEN pricing[model] ELSE pricing[GPT4O]

calculate_cost(model, input_tokens, output_tokens) ==
    LET input_cost == input_tokens * model_pricing(model).input
        output_cost == output_tokens * model_pricing(model).output
    IN  input_cost + output_cost

\* round(x / unit) with ties to the even neighbour, as round() and "%.3f" do
RoundHalfEven(x, unit) ==
    LET q == x \div unit
        r == x % unit
    IN  IF 2 * r < unit THEN q
        ELSE IF 2 * r > unit THEN q + 1
        ELSE IF q % 2 = 0 THEN q ELSE q + 1

-----------------------------------------------------------------------------
(* results_tracker.py: the metrics ledger *)

MaxAdds == 3

MaxClock == 2

\* the row of column names
HEADER ==
    [kind |-> "header",
     columns |-> <<"Approach/Framework", "Dataset/Benchmark",
                   "pass@1", "pass@2", "pass@3", "pass@4", "pass@5",
                   "pass@6", "pass@7", "pass@8", "pass@9", "pass@10",
                   "Time (sec)", "Input Tokens", "Output Tokens", "Total Tokens",
                   "Estimated Cost ($)", "Timestamp", "Model", "Tasks",
                   "Samples per Task">>]

\* mutant: open(csv_file, 'w'), the header is written over what is there
ensure_csv_exists_always(file) == [exists |-> TRUE, rows |-> <<HEADER>>]

\* if not os.path.exists(csv_file): open(csv_file, 'w'), writerow(headers)
ensure_csv_exists(file) ==
    IF ~file.exists THEN [exists |-> TRUE, rows |-> <<HEADER>>] ELSE file

\* f"{value:.3f}": thousandths; "N/A" is kept as it is
format_pass_at_k(value) ==
    IF value = NA THEN [kind |-> "text", text |-> "N/A"]
    ELSE [kind |-> "fixed3", milli |-> RoundHalfEven(1000 * value.num, value.den)]

\* the list row of add_result; estimated cost in units of 10^-4 dollar
Row(args, now) ==
    LET p == calculate_pass_at_k(args.results_file)
        estimated_cost == calculate_cost(args.model, args.input_tokens, args.output_tokens)
    IN  [kind |-> "row",
         approach |-> args.approach,
         benchmark |-> "HumanEval",
         pass |-> [k \in 1..KMax |-> format_pass_at_k(p[k])],
         time |-> args.execution_time,
         input_tokens |-> args.input_tokens,
         output_tokens |-> args.output_tokens,
         total_tokens |-> args.input_tokens + args.output_tokens,
         cost |-> RoundHalfEven(estimated_cost, 10000),
         timestamp |-> now,
         model |-> args.model,
         tasks |-> args.num_tasks,
         samples |-> args.samples_per_task]

\* mutant: open(csv_file, 'w'), the row replaces the file
AppendRow_rewrite(file, row) == [exists |-> TRUE, rows |-> <<row>>]

\* with open(csv_file, 'a'): writer.writerow(row)
AppendRow(file, row) == [exists |-> TRUE, rows |-> Append(file.rows, row)]

\* mutant: the row is written twice
add_result_twice(file, args, now) ==
    [file |-> AppendRow(AppendRow(file, Row(args, now)), Row(args, now)),
     raised |-> max_samples(TaskResults(args.results_file)) = 0]

(* add_result: the row is appended first; the summary printed afterwards    *)
(* reads pass_at_k[max_samples], a KeyError when the results file holds no  *)
(* record (max_samples = 0, the keys are 1..10).                            *)
add_result(file, args, now) ==
    [file |-> AppendRow(file, Row(args, now)),
     raised |-> max_samples(TaskResults(args.results_file)) = 0]

None == [status |-> "None"]

\* pd.read_csv: the cell "N/A" is read as NaN
to_dict(row) ==
    [row EXCEPT !.pass = [k \in 1..KMax |->
        IF row.pass[k].kind = "text" THEN [kind |-> "NaN"] ELSE row.pass[k]]]

(* get_latest_results: pandas is imported first, outside the try block, so  *)
(* without pandas the call raises ImportError whatever the file holds.      *)
get_latest_results(file, approach, can_import) ==
    IF ~can_import THEN [status |-> "ImportError"]
    ELSE IF ~file.exists THEN None
    ELSE IF file.rows = <<>> THEN [status |-> "EmptyDataError"]
    ELSE LET approach_results == SelectSeq(Tail(file.rows), LAMBDA r : r.approach = approach)
         IN  IF approach_results = <<>> THEN None
             ELSE [status |-> "row", row |-> to_dict(approach_results[Len(approach_results)])]

-----------------------------------------------------------------------------
(* Ledger driver: one process after another on the same file *)

TwoTasks ==
    << [task_id |-> "HumanEval/0", passed |-> FALSE],
       [task_id |-> "HumanEval/0", passed |-> TRUE],
       [task_id |-> "HumanEval/1", passed |-> FALSE] >>

OneTask == << [task_id |-> "HumanEval/0", passed |-> TRUE] >>

NoRecords == << >>

\* the arguments of add_result
Runs ==
    { [approach |-> "OpenAI Direct", results_file |-> TwoTasks, execution_time |-> 12,
       model |-> "gpt-4o", num_tasks |-> 2, samples_per_task |-> 2,
       input_tokens |-> 1000, output_tokens |-> 1000],
      [approach |-> "CrewAI Agent", results_file |-> OneTask, execution_time |-> 7,
       model |-> "gpt-4o-mini", num_tasks |-> 1, samples_per_task |-> 1,
       input_tokens |-> 2600, output_tokens |-> 130],
      [approach |-> "OpenAI Direct", results_file |-> NoRecords, execution_time |-> 1,
       model |-> "gpt-4o", num_tasks |-> 0, samples_per_task |-> 0,
       input_tokens |-> 0, output_tokens |-> 0] }

\* the labels asked for; the last one is never recorded
Approaches == {"OpenAI Direct", "CrewAI Agent", "LangChain Agent"}

LdInit ==
    /\ pc = "ledger"
    /\ csv_file = Absent
    /\ tracker = FALSE
    /\ pandas \in BOOLEAN
    /\ latest = NoCall
    /\ added = 0
    /\ failed = 0
    /\ LdOthersIdle

\* tracker = ResultsTracker()
Construct ==
    /\ pc = "ledger"
    /\ csv_file' = ensure_csv_exists(csv_file)
    /\ tracker' = TRUE
    /\ latest' = NoCall
    /\ UNCHANGED <<pandas, added, failed>>
    /\ UNCHANGED <<pc, ldOthers>>

\* tracker.add_result(...)
AddResult ==
    /\ pc = "ledger"
    /\ tracker
    /\ added + failed < MaxAdds
    /\ \E args \in Runs, now \in 1..MaxClock :
        LET r == add_result(csv_file, args, now)
        IN  /\ csv_file' = r.file
            /\ added' = IF r.raised THEN added ELSE added + 1
            /\ failed' = IF r.raised THEN failed + 1 ELSE failed
    /\ latest' = NoCall
    /\ UNCHANGED <<tracker, pandas>>
    /\ UNCHANGED <<pc, ldOthers>>

\* tracker.get_latest_results(approach)
GetLatestResults ==
    /\ pc = "ledger"
    /\ tracker
    /\ \E approach \in Approaches :
        latest' = [asked |-> approach] @@ get_latest_results(csv_file, approach, pandas)
    /\ UNCHANGED <<csv_file, tracker, pandas, added, failed>>
    /\ UNCHANGED <<pc, ldOthers>>

\* the process ends; the file stays
Restart ==
    /\ pc = "ledger"
    /\ tracker
    /\ tracker' = FALSE
    /\ latest' = NoCall
    /\ UNCHANGED <<csv_file, pandas, added, failed>>
    /\ UNCHANGED <<pc, ldOthers>>

LdNext == Construct \/ AddResult \/ GetLatestResults \/ Restart

SpecLedger == LdInit /\ [][LdNext]_vars

-----------------------------------------------------------------------------
(* Ledger properties *)

\* C13: from an absent file, after any constructions and n add_result calls
\* that all returned normally, the file is the header row followed by
\* exactly n data rows
C13_HeaderThenRows ==
    (pc = "ledger" /\ failed = 0) =>
        IF csv_file.exists
        THEN /\ Len(csv_file.rows) = 1 + added
             /\ csv_file.rows[1] = HEADER
             /\ \A i \in 2..Len(csv_file.rows) : csv_file.rows[i].kind = "row"
        ELSE added = 0

\* two calls with the same inputs at the same clock value left two equal rows
C13_Witness ==
    /\ pc = "ledger"
    /\ failed = 0
    /\ added = 2
    /\ ~tracker
    /\ Len(csv_file.rows) = 3
    /\ csv_file.rows[2] = csv_file.rows[3]

IsPrefix(s, t) == Len(s) <= Len(t) /\ \A i \in 1..Len(s) : s[i] = t[i]

\* C14: every operation leaves the rows that were in the file where they were
C14_AppendOnly ==
    [][/\ IsPrefix(csv_file.rows, csv_file'.rows)
       /\ csv_file.exists => csv_file'.exists]_vars

\* the file holds the header and MaxAdds rows and has just been read
C14_Witness ==
    /\ pc = "ledger"
    /\ tracker
    /\ added + failed = MaxAdds
    /\ Len(csv_file.rows) = 1 + MaxAdds
    /\ latest # NoCall

\* positions in the file of the data rows recorded under the label
Matching(approach) ==
    {i \in 2..Len(csv_file.rows) : csv_file.rows[i].approach = approach}

LastOf(S) == CHOOSE i \in S : \A j \in S : j <= i

\* C15: get_latest_results returns the last row in file order recorded under
\* the label asked for, and None when the file is absent or no row matches
C15_LatestIsLastMatch ==
    (pc = "ledger" /\ latest # NoCall) =>
        IF ~csv_file.exists \/ Matching(latest.asked) = {}
        THEN latest.status = "None"
        ELSE /\ latest.status = "row"
             /\ latest.row = to_dict(csv_file.rows[LastOf(Matching(latest.asked))])

-----------------------------------------------------------------------------
(* Cost driver: one call of calculate_cost *)

MaxTokenSteps == 4

\* token counts: multiples of 500, and two counts that are not
TokenCounts == {n * 500 : n \in 0..MaxTokenSteps} \cup {1, 999}

\* the four models of the table and two that are not in it
Models == DOMAIN pricing \cup {"gpt-4o-2024-08-06", "qwen-max"}

CostInit ==
    /\ pc = "cost"
    /\ cost_args \in [model : Models, input_tokens : TokenCounts, output_tokens : TokenCounts]
    /\ cost = 0
    /\ CostOthersIdle

\* estimated_cost = self.calculate_cost(model, input_tokens, output_tokens)
CalculateCost ==
    /\ pc = "cost"
    /\ cost' = calculate_cost(cost_args.model, cost_args.input_tokens, cost_args.output_tokens)
    /\ pc' = "costed"
    /\ UNCHANGED cost_args
    /\ UNCHANGED costOthers

CostNext == CalculateCost

SpecCost == CostInit /\ [][CostNext]_vars

\* C16: the cost is in/1000 * input rate + out/1000 * output rate of the
\* model's row (here in 10^-8 dollar, rates in 10^-5 dollar per 1000 tokens),
\* a model without a row is priced as gpt-4o (0.005 and 0.015 dollar), and
\* gpt-4o with 1000 + 1000 tokens costs 0.020 dollar
C16_CostIsLinear ==
    pc = "costed" =>
        LET m == cost_args.model
            rate == IF m = "gpt-4o-mini" THEN <<15, 60>>
                    ELSE IF m = "gpt-4" THEN <<3000, 6000>>
                    ELSE IF m = "gpt-3.5-turbo" THEN <<100, 200>>
                    ELSE <<500, 1500>>
        IN  /\ cost = cost_args.input_tokens * rate[1] + cost_args.output_tokens * rate[2]
            /\ (m = "gpt-4o" /\ cost_args.input_tokens = 1000 /\ cost_args.output_tokens = 1000)
                    => cost = 2000000

\* the documented example
C16_Witness ==
    /\ pc = "costed"
    /\ cost_args = [model |-> "gpt-4o", input_tokens |-> 1000, output_tokens |-> 1000]
    /\ cost = 2000000

-----------------------------------------------------------------------------
(* inference.py: backend selection and the run *)

MaxProblems == 2

MaxSamples == 2

MaxFailures == 1

\* int(os.getenv("NUM_SAMPLES_PER_TASK", "10")), and the except ValueError value
DefaultSamples == 10

\* os.getenv(name, "false").lower() == "true"
Flag(v) == LowerStr(Getenv(v, <<"f", "a", "l", "s", "e">>)) = <<"t", "r", "u", "e">>

USE_CREWAI(e) == Flag(e.USE_CREWAI)

USE_QWEN_AGENT(e) == Flag(e.USE_QWEN_AGENT)

USE_LANGCHAIN(e) == Flag(e.USE_LANGCHAIN)

USE_LANGGRAPH(e) == Flag(e.USE_LANGGRAPH)

\* the if/elif chain of imports: from scripts.X import generate_one_completion
ImportedModule(e) ==
    IF USE_LANGGRAPH(e) THEN "langgraph_agent"
    ELSE IF USE_LANGCHAIN(e) THEN "langchain_agent"
    ELSE IF USE_QWEN_AGENT(e) THEN "qwen_agent"
    ELSE IF USE_CREWAI(e) THEN "crewai_agent"
    ELSE "openAI_models"

\* the chain that picks reset_token_usage: it has no LangChain or LangGraph arm
ResetModule(e) ==
    IF USE_QWEN_AGENT(e) THEN "qwen_agent"
    ELSE IF USE_CREWAI(e) THEN "crewai_agent"
    ELSE "openAI_models"

approach_name(e) ==
    IF USE_LANGGRAPH(e) THEN "LangGraph Agent"
    ELSE IF USE_LANGCHAIN(e) THEN "LangChain Agent"
    ELSE IF USE_QWEN_AGENT(e) THEN "Qwen-Agent"
    ELSE IF USE_CREWAI(e) THEN "CrewAI Agent"
    ELSE "OpenAI Direct"

\* num_samples_per_task: int() of a string of digits, 10 on ValueError
NumSamples(e) ==
    LET v == Getenv(e.NUM_SAMPLES_PER_TASK, <<"1", "0">>)
    IN  IF IsDigitStr(v) THEN ParseInt(v) ELSE DefaultSamples

\* problems.keys(): the ids of the benchmark, in file order
Problems == SubSeq(<< <<"0">>, <<"1">>, <<"2">>, <<"3">> >>, 1, MaxProblems)

\* the variables _select_task_ids reads
SelectorEnv(e) ==
    [SHUFFLE_TASKS |-> Unset, TASK_SHUFFLE_SEED |-> Unset,
     TASK_IDS |-> Unset, TASK_LIMIT |-> e.TASK_LIMIT]

\* int(len(text.split()) * 1.3), for a text of that many words
Estimate(words) == (13 * words) \div 10

\* the agent modules: int(estimated_input), int(estimated_output) and
\* int(estimated_input + estimated_output), for i and o words
EstimatedUsage(i, o) ==
    [input_tokens |-> Estimate(i), output_tokens |-> Estimate(o),
     total_tokens |-> Estimate(i + o)]

\* openAI_models: resp.usage of the API, which reports i prompt tokens,
\* o completion tokens and their sum
ApiUsage(i, o) ==
    [input_tokens |-> i, output_tokens |-> o, total_tokens |-> i + o]

\* the tokens one successful generation call adds to its module's counters
CallUsage(module, i, o) ==
    IF module = "openAI_models" THEN ApiUsage(i, o) ELSE EstimatedUsage(i, o)

\* the sizes of prompt and answer in a run: every call of a run is alike
RunCall == [input |-> 100, output |-> 30]

AddUsage(u, d) ==
    [input_tokens |-> u.input_tokens + d.input_tokens,
     output_tokens |-> u.output_tokens + d.output_tokens,
     total_tokens |-> u.total_tokens + d.total_tokens]

\* the agent modules wrap the call in try/except Exception; openAI_models
\* has no handler, and neither has the loop in main
CatchesFailure(module) == module # "openAI_models"

(* generate_one_completion of the module, for a backend call that answers   *)
(* (ok) or raises: the completion returned and the tokens counted, or the   *)
(* exception passed on to main.                                             *)
generate_one_completion(module, ok, i, o) ==
    IF ok THEN [raised |-> FALSE, completion |-> "body", usage |-> CallUsage(module, i, o)]
    ELSE IF CatchesFailure(module)
         THEN [raised |-> FALSE, completion |-> "placeholder", usage |-> ZeroUsage]
         ELSE [raised |-> TRUE]

\* main's total_generations
total_generations == Len(main_task_ids) * num_samples_per_task

\* mutant: attempt-major order, one sample of every task and then the next round
CurrentTask_attempt_major == main_task_ids[(Len(samples) % Len(main_task_ids)) + 1]

\* the task the loop is at after the samples generated so far
CurrentTask == main_task_ids[(Len(samples) \div num_samples_per_task) + 1]

\* how the evaluation subprocess can end
JudgeOutcomes ==
    {[status |-> "raised"]} \cup
    [status : {"exited"}, returncode : {0, 1}, wrote_results : BOOLEAN]

\* mutant: the exit status of the judge is not looked at
Succeeded_any_exit(j) == j.status = "exited" /\ j.wrote_results

\* result.returncode == 0 and os.path.exists(temp_results), no exception
Succeeded(j) == j.status = "exited" /\ j.returncode = 0 /\ j.wrote_results

\* the judge's results file: one record per sample; a placeholder fails, and
\* the other bodies pass or fail together
JudgeResults(good) ==
    [i \in 1..Len(samples) |->
        [task_id |-> samples[i].task_id,
         passed |-> good /\ samples[i].completion = "body"]]

-----------------------------------------------------------------------------
(* Run driver: one process, from the import of inference.py to its end *)

FlagValues == {Unset, Str(<<"T", "r", "u", "e">>)}

SamplesValues ==
    {Unset, Str(<<"x">>)} \cup
    {Str(<<d>>) : d \in {c \in Digits : DigitVal(c) <= MaxSamples}}

RunLimitValues == {Unset, Str(<<"1">>)}

RunInit ==
    /\ pc = "boot"
    /\ run_env \in [USE_CREWAI : FlagValues, USE_QWEN_AGENT : FlagValues,
                    USE_LANGCHAIN : FlagValues, USE_LANGGRAPH : FlagValues,
                    NUM_SAMPLES_PER_TASK : SamplesValues, TASK_LIMIT : RunLimitValues]
    /\ main_calls = 0
    /\ backend = ""
    /\ num_samples_per_task = 0
    /\ main_task_ids = <<>>
    /\ samples = <<>>
    /\ failures = 0
    /\ token_usage = [m \in Modules |-> ZeroUsage]
    /\ disk = NoFiles
    /\ judge = NotRun
    /\ RunOthersIdle

runLedger == <<csv_file, tracker, added, failed>>

\* module level: the flags are read and one backend module is imported
ImportBackend ==
    /\ pc = "boot"
    /\ backend' = ImportedModule(run_env)
    /\ pc' = "imported"
    /\ UNCHANGED <<run_env, main_calls, num_samples_per_task, main_task_ids, samples, failures,
                   token_usage, disk, judge>>
    /\ UNCHANGED <<runLedger, runOthers>>

\* main, up to the selection of the tasks
SelectTasks ==
    /\ pc = "imported"
    /\ num_samples_per_task' = NumSamples(run_env)
    /\ main_task_ids' = _select_task_ids(Problems, SelectorEnv(run_env), 0)
    /\ pc' = "tasks_selected"
    /\ main_calls' = main_calls + 1
    /\ UNCHANGED <<run_env, backend, samples, failures, token_usage, disk, judge>>
    /\ UNCHANGED <<runLedger, runOthers>>

\* reset_token_usage() of the module the reset chain picks
ResetTokenUsage ==
    /\ pc = "tasks_selected"
    /\ token_usage' = [token_usage EXCEPT ![ResetModule(run_env)] = ZeroUsage]
    /\ pc' = "generating"
    /\ UNCHANGED <<run_env, main_calls, backend, num_samples_per_task, main_task_ids, samples,
                   failures, disk, judge>>
    /\ UNCHANGED <<runLedger, runOthers>>

\* one turn of the inner loop: a generation call and samples.append
Generate ==
    /\ pc = "generating"
    /\ Len(samples) < total_generations
    /\ \E ok \in BOOLEAN :
        /\ ~ok => failures < MaxFailures
        /\ LET r == generate_one_completion(backend, ok, RunCall.input, RunCall.output)
           IN  IF r.raised
               THEN /\ pc' = "crashed"
                    /\ UNCHANGED <<samples, token_usage>>
               ELSE /\ samples' = Append(samples,
                            [task_id |-> CurrentTask, completion |-> r.completion])
                    /\ token_usage' = [token_usage EXCEPT
                            ![backend] = AddUsage(@, r.usage)]
                    /\ pc' = pc
        /\ failures' = IF ok THEN failures ELSE failures + 1
    /\ UNCHANGED <<run_env, main_calls, backend, num_samples_per_task, main_task_ids, disk, judge>>
    /\ UNCHANGED <<runLedger, runOthers>>

\* write_jsonl(samples_path, samples)
WriteSamples ==
    /\ pc = "generating"
    /\ Len(samples) = total_generations
    /\ disk' = [disk EXCEPT !.samples = Str(samples)]
    /\ pc' = "samples_written"
    /\ UNCHANGED <<run_env, main_calls, backend, num_samples_per_task, main_task_ids, samples,
                   failures, token_usage, judge>>
    /\ UNCHANGED <<runLedger, runOthers>>

\* write_jsonl(custom_problems_path, custom_problems)
WriteProblems ==
    /\ pc = "samples_written"
    /\ disk' = [disk EXCEPT !.problems = Str(main_task_ids)]
    /\ pc' = "problems_written"
    /\ UNCHANGED <<run_env, main_calls, backend, num_samples_per_task, main_task_ids, samples,
                   failures, token_usage, judge>>
    /\ UNCHANGED <<runLedger, runOthers>>

\* subprocess.run(eval_cmd): the judge reads the two files and may leave
\* <samples_path>_results.jsonl
RunJudge ==
    /\ pc = "problems_written"
    /\ \E j \in JudgeOutcomes, good \in BOOLEAN :
        /\ judge' = j
        /\ disk' = IF j.status = "exited" /\ j.wrote_results
                   THEN [disk EXCEPT !.temp_results = Str(JudgeResults(good))]
                   ELSE disk
    /\ pc' = "evaluated"
    /\ UNCHANGED <<run_env, main_calls, backend, num_samples_per_task, main_task_ids, samples,
                   failures, token_usage>>
    /\ UNCHANGED <<runLedger, runOthers>>

(* the success arm: os.rename, ResultsTracker(), add_result with the        *)
(* counters of the imported module; an exception of add_result is caught    *)
(* by main's except Exception after the row has been appended.              *)
RecordResult ==
    /\ pc = "evaluated"
    /\ Succeeded(judge)
    /\ disk' = [disk EXCEPT !.results = disk.temp_results, !.temp_results = Unset]
    /\ \E now \in 1..MaxClock :
        LET args == [approach |-> approach_name(run_env),
                     results_file |-> disk.temp_results[1],
                     execution_time |-> 1,
                     model |-> GPT4O,
                     num_tasks |-> Len(main_task_ids),
                     samples_per_task |-> num_samples_per_task,
                     input_tokens |-> token_usage[backend].input_tokens,
                     output_tokens |-> token_usage[backend].output_tokens]
            r == add_result(ensure_csv_exists(csv_file), args, now)
        IN  /\ csv_file' = r.file
            /\ added' = IF r.raised THEN added ELSE added + 1
            /\ failed' = IF r.raised THEN failed + 1 ELSE failed
    /\ tracker' = TRUE
    /\ pc' = "finished"
    /\ UNCHANGED <<run_env, main_calls, backend, num_samples_per_task, main_task_ids, samples,
                   failures, token_usage, judge>>
    /\ UNCHANGED runOthers

\* the failure arms: a message is printed, nothing is recorded
SkipRecord ==
    /\ pc = "evaluated"
    /\ ~Succeeded(judge)
    /\ pc' = "finished"
    /\ UNCHANGED runVars
    /\ UNCHANGED <<runLedger, runOthers>>

RunNext ==
    \/ ImportBackend
    \/ SelectTasks
    \/ ResetTokenUsage
    \/ Generate
    \/ WriteSamples
    \/ WriteProblems
    \/ RunJudge
    \/ RecordResult
    \/ SkipRecord

SpecRun == RunInit /\ [][RunNext]_vars

MaxMainCalls == 2

(* main is called again in the same process: its locals start afresh, the   *)
(* module-level token counters and the ledger file stay as they are.  disk  *)
(* holds the files of the run in progress; each run has its own base name.  *)
MainAgain ==
    /\ pc = "finished"
    /\ main_calls < MaxMainCalls
    /\ pc' = "imported"
    /\ num_samples_per_task' = 0
    /\ main_task_ids' = <<>>
    /\ samples' = <<>>
    /\ failures' = 0
    /\ disk' = NoFiles
    /\ judge' = NotRun
    /\ UNCHANGED <<run_env, main_calls, backend, token_usage>>
    /\ UNCHANGED <<runLedger, runOthers>>

RunTwiceNext == RunNext \/ MainAgain

SpecRunTwice == RunInit /\ [][RunTwiceNext]_vars

-----------------------------------------------------------------------------
(* Run properties *)

AfterLoop == {"samples_written", "problems_written", "evaluated", "finished"}

SamplesFor(t) == Cardinality({i \in 1..Len(samples) : samples[i].task_id = t})

\* C17: with every backend a failing generation call is absorbed: the run is
\* not aborted, and the loop ends with len(task_ids) * samples_per_task
\* samples, samples_per_task for each selected task
C17_FailureIsAbsorbed ==
    /\ pc # "crashed"
    /\ pc \in AfterLoop =>
        /\ Len(samples) = Len(main_task_ids) * num_samples_per_task
        /\ \A i \in 1..Len(main_task_ids) :
                SamplesFor(main_task_ids[i]) = num_samples_per_task

JudgeFailed ==
    \/ judge.status = "raised"
    \/ judge.returncode # 0
    \/ ~judge.wrote_results

\* C18: after a judge that exited non-zero, raised, or left no results file,
\* the ledger has no new row (it is still absent) and the samples file and
\* the problems file hold what was written before judging
C18_FailedJudgeRecordsNothing ==
    (pc \in {"evaluated", "finished"} /\ JudgeFailed) =>
        /\ csv_file = Absent
        /\ disk.samples = Str(samples)
        /\ disk.problems = Str(main_task_ids)
        /\ disk.results = Unset

\* the judge left a results file but exited with status 1, and the run ended
C18_Witness ==
    /\ pc = "finished"
    /\ judge = [status |-> "exited", returncode |-> 1, wrote_results |-> TRUE]
    /\ Len(samples) >= 2
    /\ disk.temp_results # Unset
    /\ csv_file = Absent

FlagsSet ==
    {f \in {"USE_LANGGRAPH", "USE_LANGCHAIN", "USE_QWEN_AGENT", "USE_CREWAI"} :
        run_env[f] # Unset /\ LowerStr(run_env[f][1]) = <<"t", "r", "u", "e">>}

\* C19: with more than one backend flag set to true the run stops before it
\* selects tasks, generates or writes a file
C19_MultipleFlagsIsFatal ==
    (pc # "boot" /\ Cardinality(FlagsSet) > 1) =>
        /\ pc \in {"imported", "config_error"}
        /\ main_task_ids = <<>>
        /\ samples = <<>>
        /\ disk = NoFiles

-----------------------------------------------------------------------------
(* Two processes on one ledger file: ResultsTracker() and add_result, with   *)
(* the file-system calls of ensure_csv_exists as separate steps             *)

MaxRaceAdds == 1

Procs == {1, 2}

RaceInit ==
    /\ pc = "race"
    /\ procs = [p \in Procs |-> [at |-> "start", saw_absent |-> FALSE, adds |-> 0]]
    /\ RaceOthersIdle

\* if not os.path.exists(self.csv_file)
CheckExists(p) ==
    /\ pc = "race"
    /\ procs[p].at = "start"
    /\ procs' = [procs EXCEPT ![p].at = "checked", ![p].saw_absent = ~csv_file.exists]
    /\ UNCHANGED csv_file
    /\ UNCHANGED <<pc, raceOthers>>

\* open(self.csv_file, 'w') and writerow(headers), on what the check saw
WriteHeader(p) ==
    /\ pc = "race"
    /\ procs[p].at = "checked"
    /\ procs[p].saw_absent
    /\ csv_file' = [exists |-> TRUE, rows |-> <<HEADER>>]
    /\ procs' = [procs EXCEPT ![p].at = "constructed"]
    /\ UNCHANGED <<pc, raceOthers>>

\* the file was seen to exist: the constructor returns
SkipHeader(p) ==
    /\ pc = "race"
    /\ procs[p].at = "checked"
    /\ ~procs[p].saw_absent
    /\ procs' = [procs EXCEPT ![p].at = "constructed"]
    /\ UNCHANGED csv_file
    /\ UNCHANGED <<pc, raceOthers>>

\* tracker.add_result(...): one append-mode write of the row
AppendResult(p) ==
    /\ pc = "race"
    /\ procs[p].at = "constructed"
    /\ procs[p].adds < MaxRaceAdds
    /\ \E args \in Runs, now \in 1..MaxClock :
        csv_file' = add_result(csv_file, args, now).file
    /\ procs' = [procs EXCEPT ![p].adds = @ + 1]
    /\ UNCHANGED <<pc, raceOthers>>

RaceNext ==
    \E p \in Procs :
        \/ CheckExists(p)
        \/ WriteHeader(p)
        \/ SkipHeader(p)
        \/ AppendResult(p)

SpecLedgerRace == RaceInit /\ [][RaceNext]_vars

\* C20: no step of either process rewrites or truncates the file: every
\* data row in the file is still there, at its place, after the step
C20_NoRowLost ==
    [][\A i \in 1..Len(csv_file.rows) :
            csv_file.rows[i].kind = "row" =>
                /\ i <= Len(csv_file'.rows)
                /\ csv_file'.rows[i] = csv_file.rows[i]]_vars

-----------------------------------------------------------------------------
(* Properties of repeated runs *)

BodiesGenerated == Cardinality({i \in 1..Len(samples) : samples[i].completion = "body"})

InRun == {"generating", "samples_written", "problems_written", "evaluated", "finished"}

\* C21: in every run, whichever backend is selected, the counters of that
\* backend hold the tokens of this run's generation calls only (they were
\* reset before the first call), and these are the counts the ledger row gets
C21_CountsCoverThisRun ==
    pc \in InRun =>
        LET per_call == IF backend = "openAI_models"
                        THEN [input |-> 100, output |-> 30]
                        ELSE [input |-> 130, output |-> 39]
        IN  /\ token_usage[backend].input_tokens = BodiesGenerated * per_call.input
            /\ token_usage[backend].output_tokens = BodiesGenerated * per_call.output
            /\ (pc = "finished" /\ judge.status = "exited" /\ judge.returncode = 0
                    /\ judge.wrote_results) =>
                 csv_file.rows[Len(csv_file.rows)].input_tokens
                    = BodiesGenerated * per_call.input

\* the i-th sample belongs to the task at place ceil(i / samples_per_task)
ProblemMajor ==
    /\ Len(samples) <= Len(main_task_ids) * num_samples_per_task
    /\ \A i \in 1..Len(samples) :
        /\ samples[i].task_id = main_task_ids[((i - 1) \div num_samples_per_task) + 1]
        /\ \E j \in 1..Len(main_task_ids) : samples[i].task_id = main_task_ids[j]

\* C22: samples are produced one at a time, each step appending one sample
\* to the list, and the list is problem-major then attempt-minor with every
\* task_id an id of the selected subset
C22_GenerationOrder ==
    [][samples' # samples =>
            /\ Len(samples') = Len(samples) + 1
            /\ SubSeq(samples', 1, Len(samples)) = samples
            /\ ProblemMajor']_vars

\* two tasks with two samples each were generated and the run ended
C22_Witness ==
    /\ pc = "finished"
    /\ Len(main_task_ids) = 2
    /\ num_samples_per_task = 2
    /\ Len(samples) = 4
    /\ samples[2].task_id = main_task_ids[1]
    /\ samples[3].task_id = main_task_ids[2]

JudgeOK == judge.status = "exited" /\ judge.returncode = 0 /\ judge.wrote_results

\* C23: a run selects once, judges only after every sample is generated and
\* both files are written, and appends a Run Record only after the judge has
\* finished: none when the judge failed, exactly one when it succeeded
C23_RunOrder ==
    [][/\ main_task_ids' # main_task_ids => (pc = "imported" /\ main_calls = 0)
       /\ pc' = "tasks_selected" => pc = "imported"
       /\ judge' # judge =>
            /\ pc = "problems_written"
            /\ Len(samples) = Len(main_task_ids) * num_samples_per_task
            /\ disk.samples = Str(samples)
            /\ disk.problems = Str(main_task_ids)
       /\ csv_file' # csv_file =>
            /\ pc = "evaluated"
            /\ JudgeOK
            /\ csv_file = Absent
            /\ Len(csv_file'.rows) = 2
            /\ csv_file'.rows[1] = HEADER
            /\ csv_file'.rows[2].kind = "row"
       /\ (pc = "evaluated" /\ pc' = "finished" /\ JudgeOK) => csv_file' # csv_file]_vars

\* the judge succeeded on four samples and the run's one record is in the ledger
C23_Witness ==
    /\ pc = "finished"
    /\ JudgeOK
    /\ Len(samples) = 4
    /\ Len(csv_file.rows) = 2
    /\ csv_file.rows[2].tasks = 2

-----------------------------------------------------------------------------
(* Further sanitizer and estimator properties *)

\* C24: sanitize_completion returns for every input, the empty and the
\* whitespace-only ones included, a text that ends with one newline which
\* no whitespace precedes: rstrip(t) + "\n" for some t
C24_OneTrailingNewline ==
    pc \in {"sanitized", "resanitized"} =>
        /\ Len(body) >= 1
        /\ body[Len(body)] = NL
        /\ Len(body) > 1 => ~IsSpace(body[Len(body) - 1])
        /\ body = RStrip(body) \o <<NL>>

\* a whitespace-only input of two characters was sanitized
C24_Witness ==
    /\ pc = "sanitized"
    /\ Len(raw) >= 2
    /\ \A i \in 1..Len(raw) : IsSpace(raw[i])
    /\ Len(body) >= 1
    /\ body[Len(body)] = NL

\* C25: pass@k does not decrease with k: for k1 < k2 <= the largest number
\* of samples of a task, pass@k1 <= pass@k2 (as fractions, cross-multiplied)
C25_Monotone ==
    pc = "calculated" =>
        \A k1, k2 \in 1..10 :
            (k1 < k2 /\ k2 <= LargestCount) =>
                /\ pass_at_k[k1].kind = "ratio"
                /\ pass_at_k[k2].kind = "ratio"
                /\ pass_at_k[k1].num * pass_at_k[k2].den
                        <= pass_at_k[k2].num * pass_at_k[k1].den

\* three computable values that rise twice: a task passes at its second
\* sample and another at its third
C25_Witness ==
    /\ pc = "calculated"
    /\ LargestCount >= 3
    /\ pass_at_k[1].num < pass_at_k[2].num
    /\ pass_at_k[2].num < pass_at_k[3].num

\* C26: add_result never raises on a well-formed results file, one without
\* records included: every call so far appended one row and returned, and a
\* row made from no records has "N/A" in all ten pass@k columns
C26_AddResultReturns ==
    pc = "ledger" =>
        /\ failed = 0
        /\ csv_file.exists => Len(csv_file.rows) = 1 + added
        /\ \A i \in 2..Len(csv_file.rows) :
                csv_file.rows[i].tasks = 0 =>
                    \A k \in 1..10 : csv_file.rows[i].pass[k] = [kind |-> "text", text |-> "N/A"]

-----------------------------------------------------------------------------
(* Token counters of one backend module: any sequence of reset_token_usage  *)
(* and generate_one_completion calls                                        *)

MaxCalls == 3

MaxWords == 3

TokInit ==
    /\ pc = "tokens"
    /\ backend \in Modules
    /\ run_env = <<>>
    /\ main_calls = 0
    /\ num_samples_per_task = 0
    /\ main_task_ids = <<>>
    /\ samples = <<>>
    /\ failures = 0
    /\ token_usage = [m \in Modules |-> ZeroUsage]
    /\ disk = NoFiles
    /\ judge = NotRun
    /\ RunOthersIdle

\* reset_token_usage()
ResetUsage ==
    /\ pc = "tokens"
    /\ token_usage' = [token_usage EXCEPT ![backend] = ZeroUsage]
    /\ UNCHANGED <<run_env, main_calls, backend, num_samples_per_task, main_task_ids,
                   samples, failures, disk, judge>>
    /\ UNCHANGED <<pc, runLedger, runOthers>>

\* generate_one_completion(prompt): the backend answers a prompt of i words
\* (tokens, for the API) with o words, or fails
GenerateCall ==
    /\ pc = "tokens"
    /\ Len(samples) + failures < MaxCalls
    /\ \E ok \in BOOLEAN, i \in 0..MaxWords, o \in 0..MaxWords :
        LET r == generate_one_completion(backend, ok, i, o)
        IN  IF r.raised
            THEN /\ failures' = failures + 1
                 /\ UNCHANGED <<samples, token_usage>>
            ELSE /\ samples' = Append(samples, [task_id |-> <<>>, completion |-> r.completion])
                 /\ token_usage' = [token_usage EXCEPT ![backend] = AddUsage(@, r.usage)]
                 /\ UNCHANGED failures
    /\ UNCHANGED <<run_env, main_calls, backend, num_samples_per_task, main_task_ids,
                   disk, judge>>
    /\ UNCHANGED <<pc, runLedger, runOthers>>

TokNext == ResetUsage \/ GenerateCall

SpecTokens == TokInit /\ [][TokNext]_vars

\* get_token_usage(): a copy of the module's counters
get_token_usage(module) == token_usage[module]

\* C27: whatever calls were made, the counters of every backend satisfy
\* total_tokens = input_tokens + output_tokens
C27_TotalIsSum ==
    pc = "tokens" =>
        \A m \in Modules :
            get_token_usage(m).total_tokens
                = get_token_usage(m).input_tokens + get_token_usage(m).output_tokens

====
